---- MODULE Spec2Model ----
(***************************************************************************)
(* Model of src/app.py: the e-commerce analytics dashboard.                *)
(*                                                                         *)
(* The script loads an order table once (load_data) and then runs the      *)
(* body of the page selected in the sidebar.  Money is counted in whole    *)
(* cents, percentages with one decimal in tenths of a percent, dates in    *)
(* days of the year 2024 (1 = 2024-01-01).  A value pandas would report as *)
(* NaN is the record NaN; a finite ratio is the record Ratio(num, den).    *)
(***************************************************************************)
EXTENDS Integers, Sequences, FiniteSets, TLC

\* ------------------------------------------------------------------------
\* Bounds of the model (not program constants)
\* ------------------------------------------------------------------------
MaxOrders == 3
NumCustomers == 3
MaxDay == 2
MaxProfiles == 5

Customers == 1..NumCustomers
Dates == 1..MaxDay
OrderValues == {0, 100, 400}
Discounts == {0, 500}
Categories == {"X", "Y", "Z"}
Statuses == {"completed", "cancelled", "returned", "refunded"}
\* the numbers of orders one customer places in a customer-profile table
OrderCounts == {1, 2, 3, 4}

\* A missing cell of the CSV (only discount_applied is read with missing cells)
Missing == -1

RequiredColumns ==
    {"order_id", "customer_id", "order_date", "order_value",
     "discount_applied", "product_category", "order_status"}

DerivedColumns == {"order_month", "order_month_name", "Quarter", "Week", "Season"}

\* ------------------------------------------------------------------------
\* Numbers
\* ------------------------------------------------------------------------
NaN == [nan |-> TRUE, num |-> 0, den |-> 1]
\* float division by zero of a negative number
NegInf == [nan |-> FALSE, num |-> -1, den |-> 0]
Ratio(n, d) == IF d = 0 THEN NaN ELSE [nan |-> FALSE, num |-> n, den |-> d]
IsNaN(x) == x.nan

Abs(x) == IF x < 0 THEN -x ELSE x

\* numpy's round (round half to even) of num/den to an integer, num >= 0, den > 0
RoundHalfEven(num, den) ==
    LET q == num \div den
        r == num % den
    IN  IF 2 * r < den THEN q
        ELSE IF 2 * r > den THEN q + 1
        ELSE IF q % 2 = 0 THEN q ELSE q + 1

RECURSIVE SumSeq(_)
SumSeq(s) == IF s = <<>> THEN 0 ELSE Head(s) + SumSeq(Tail(s))

\* Series.sum() of the order_value column (0 for an empty table)
RECURSIVE SumValue(_)
SumValue(rows) ==
    IF rows = <<>> THEN 0 ELSE Head(rows).order_value + SumValue(Tail(rows))

\* a mean that is 0 for an empty table
MeanValueZeroWhenEmpty(rows) ==
    IF Len(rows) = 0 THEN [nan |-> FALSE, num |-> 0, den |-> 1]
    ELSE Ratio(SumValue(rows), Len(rows))

\* Series.mean() of the order_value column: NaN for an empty table
MeanValue(rows) == Ratio(SumValue(rows), Len(rows))

Max(S) == CHOOSE x \in S : \A y \in S : y <= x

Min(S) == CHOOSE x \in S : \A y \in S : x <= y

\* ------------------------------------------------------------------------
\* load_data: calendar features
\* ------------------------------------------------------------------------
\* last day of year of each month of 2024
MonthEnd == <<31, 60, 91, 121, 152, 182, 213, 244, 274, 305, 335, 366>>

dt_month(d) == CHOOSE m \in 1..12 :
                  /\ d <= MonthEnd[m]
                  /\ (m = 1 \/ d > MonthEnd[m - 1])

MonthNames == <<"January", "February", "March", "April", "May", "June",
                "July", "August", "September", "October", "November", "December">>

dt_quarter(d) == ((dt_month(d) - 1) \div 3) + 1

\* ISO week of a day of 2024 (2024-01-01 is a Monday; Dec 30 and 31 belong to
\* week 1 of 2025)
dt_isoweek(d) == IF d >= 365 THEN 1 ELSE ((d - 1) \div 7) + 1

get_season(month) ==
    IF month \in {12, 1, 2} THEN "Winter"
    ELSE IF month \in {3, 4, 5} THEN "Spring"
    ELSE IF month \in {6, 7, 8} THEN "Summer"
    ELSE "Fall"

\* the column left as read, its missing cells not filled
fillna_none(x) == x

fillna0(x) == IF x = Missing THEN 0 ELSE x

\* one row of the table load_data returns
LoadRow(o) ==
    [customer_id |-> o.customer_id,
     order_date |-> o.order_date,
     order_value |-> o.order_value,
     discount_applied |-> fillna0(o.discount_applied),
     product_category |-> o.product_category,
     order_status |-> o.order_status,
     order_month |-> dt_month(o.order_date),
     order_month_name |-> MonthNames[dt_month(o.order_date)],
     Quarter |-> dt_quarter(o.order_date),
     Week |-> dt_isoweek(o.order_date),
     Season |-> get_season(dt_month(o.order_date))]

LoadRows(rows) == [i \in 1..Len(rows) |-> LoadRow(rows[i])]

\* ------------------------------------------------------------------------
\* Customer Segmentation page: RFM
\* ------------------------------------------------------------------------
\* the values of f over D in ascending order
RECURSIVE SortAsc(_, _)
SortAsc(f, D) ==
    IF D = {} THEN <<>>
    ELSE LET i == CHOOSE i \in D : \A j \in D : f[i] <= f[j]
         IN  <<f[i]>> \o SortAsc(f, D \ {i})

\* Series.quantile(k/5) with linear interpolation, times 5 (a is sorted, Len(a) >= 1)
Quantile5(a, k) ==
    LET pos == (Len(a) - 1) * k
        lo == pos \div 5
        rem == pos % 5
    IN  IF rem = 0 THEN 5 * a[lo + 1]
        ELSE 5 * a[lo + 1] + rem * (a[lo + 2] - a[lo + 1])

\* pd.qcut(x, q=5, labels=labels, duplicates="drop") for x = f over D:
\* the six quantile edges, duplicate edges dropped, then pd.cut's check that
\* there is one label per bin, then right-closed bins with the lowest value
\* included in the first.  error is the ValueError "Bin labels must be one
\* fewer than the number of bin edges".
qcut(f, D, labels) ==
    LET a == SortAsc(f, D)
        bins == {Quantile5(a, k) : k \in 0..5}
        ids(x) == IF 5 * x = Quantile5(a, 0) THEN 1
                  ELSE Cardinality({e \in bins : e < 5 * x})
    IN  IF Len(labels) # Cardinality(bins) - 1
        THEN [error |-> TRUE, codes |-> <<>>]
        ELSE [error |-> FALSE, codes |-> [i \in D |-> labels[ids(f[i])]]]

\* Series.rank(method="min"): tied values share the lowest of their ranks
rank_min(f, D) ==
    [i \in D |-> 1 + Cardinality({j \in D : f[j] < f[i]})]

\* Series.rank(method="first"): ties are ranked in row order (the rows of rfm
\* are in customer_id order)
rank_first(f, D) ==
    [i \in D |-> 1 + Cardinality({j \in D : f[j] < f[i] \/ (f[j] = f[i] /\ j < i)})]

\* segment_customer with the Promising rule tested before Need Attention
segment_customer_promising_first(row) ==
    LET r == row.R_score
        f == row.F_score
        m == row.M_score
    IN  IF r >= 4 /\ f >= 4 /\ m >= 4 THEN "Champions"
        ELSE IF r >= 3 /\ f >= 4 /\ m >= 4 THEN "Loyal Customers"
        ELSE IF r >= 4 /\ f >= 3 /\ m >= 4 THEN "Potential Loyalists"
        ELSE IF f >= 3 /\ m >= 3 /\ r <= 2 THEN "At Risk"
        ELSE IF r >= 3 /\ (f >= 3 \/ m >= 3) THEN "Promising"
        ELSE IF r >= 4 /\ (f <= 2 \/ m <= 2) THEN "Need Attention"
        ELSE IF r <= 2 /\ f <= 2 THEN "Lost"
        ELSE "Other"

\* segment_customer with the Loyal Customers rule tested before Champions
segment_customer_loyal_first(row) ==
    LET r == row.R_score
        f == row.F_score
        m == row.M_score
    IN  IF r >= 3 /\ f >= 4 /\ m >= 4 THEN "Loyal Customers"
        ELSE IF r >= 4 /\ f >= 4 /\ m >= 4 THEN "Champions"
        ELSE IF r >= 4 /\ f >= 3 /\ m >= 4 THEN "Potential Loyalists"
        ELSE IF f >= 3 /\ m >= 3 /\ r <= 2 THEN "At Risk"
        ELSE IF r >= 4 /\ (f <= 2 \/ m <= 2) THEN "Need Attention"
        ELSE IF r >= 3 /\ (f >= 3 \/ m >= 3) THEN "Promising"
        ELSE IF r <= 2 /\ f <= 2 THEN "Lost"
        ELSE "Other"

segment_customer(row) ==
    LET r == row.R_score
        f == row.F_score
        m == row.M_score
    IN  IF r >= 4 /\ f >= 4 /\ m >= 4 THEN "Champions"
        ELSE IF r >= 3 /\ f >= 4 /\ m >= 4 THEN "Loyal Customers"
        ELSE IF r >= 4 /\ f >= 3 /\ m >= 4 THEN "Potential Loyalists"
        ELSE IF f >= 3 /\ m >= 3 /\ r <= 2 THEN "At Risk"
        ELSE IF r >= 4 /\ (f <= 2 \/ m <= 2) THEN "Need Attention"
        ELSE IF r >= 3 /\ (f >= 3 \/ m >= 3) THEN "Promising"
        ELSE IF r <= 2 /\ f <= 2 THEN "Lost"
        ELSE "Other"

\* rfm["Segment"] = rfm.apply(segment_customer, axis=1)
ApplySegment(t) ==
    [c \in DOMAIN t |->
        [customer_id |-> c, Recency |-> t[c].Recency, Frequency |-> t[c].Frequency,
         Monetary |-> t[c].Monetary, R_score |-> t[c].R_score,
         F_score |-> t[c].F_score, M_score |-> t[c].M_score,
         RFM_Score |-> t[c].RFM_Score, Segment |-> segment_customer(t[c])]]

RowsOfCustomer(rows, c) == SelectSeq(rows, LAMBDA o : o.customer_id = c)

CustomerIds(rows) == {rows[i].customer_id : i \in 1..Len(rows)}

\* the latest order date itself, without the day added to it
reference_date_no_offset(rows) == Max({rows[i].order_date : i \in 1..Len(rows)})

reference_date(rows) == Max({rows[i].order_date : i \in 1..Len(rows)}) + 1

\* rfm_aggregate with the distinct order dates counted in place of the orders
rfm_aggregate_nunique_dates(rows) ==
    [c \in CustomerIds(rows) |->
        LET mine == RowsOfCustomer(rows, c)
        IN  [customer_id |-> c,
             Recency |-> reference_date(rows)
                         - Max({mine[i].order_date : i \in 1..Len(mine)}),
             Frequency |-> Cardinality({mine[i].order_date : i \in 1..Len(mine)}),
             Monetary |-> SumValue(mine)]]

\* df.groupby("customer_id").agg(...).rename(...).reset_index()
rfm_aggregate(rows) ==
    [c \in CustomerIds(rows) |->
        LET mine == RowsOfCustomer(rows, c)
        IN  [customer_id |-> c,
             Recency |-> reference_date(rows)
                         - Max({mine[i].order_date : i \in 1..Len(mine)}),
             Frequency |-> Len(mine),
             Monetary |-> SumValue(mine)]]

\* the recency labels in the order of the frequency labels
R_labels_ascending == <<1, 2, 3, 4, 5>>

R_labels == <<5, 4, 3, 2, 1>>
FM_labels == <<1, 2, 3, 4, 5>>

\* the three qcut calls of the RFM scoring, in the order the page makes them
R_cut(t) == qcut([c \in DOMAIN t |-> t[c].Recency], DOMAIN t, R_labels)
F_cut(t) ==
    qcut(rank_first([c \in DOMAIN t |-> t[c].Frequency], DOMAIN t), DOMAIN t, FM_labels)
M_cut(t) ==
    qcut(rank_first([c \in DOMAIN t |-> t[c].Monetary], DOMAIN t), DOMAIN t, FM_labels)

\* the first qcut raises: no score column is added
rfm_raises(t) == R_cut(t).error \/ F_cut(t).error \/ M_cut(t).error

\* rfm with the columns R_score, F_score, M_score and RFM_Score
rfm_scored(t) ==
    LET R == R_cut(t).codes
        F == F_cut(t).codes
        M == M_cut(t).codes
    IN  [c \in DOMAIN t |->
            [customer_id |-> c, Recency |-> t[c].Recency, Frequency |-> t[c].Frequency,
             Monetary |-> t[c].Monetary,
             R_score |-> R[c],
             F_score |-> F[c],
             M_score |-> M[c],
             RFM_Score |-> <<R[c], F[c], M[c]>>]]

\* ------------------------------------------------------------------------
\* Product & Category page
\* ------------------------------------------------------------------------
RowsOfCategory(rows, cat) == SelectSeq(rows, LAMBDA o : o.product_category = cat)

CategoryIds(rows) == {rows[i].product_category : i \in 1..Len(rows)}

\* DataFrame.round(2) of an amount of num/den cents
round2(num, den) == RoundHalfEven(num, den)

\* pct_round1 with .round(0): the percentage rounded to a whole percent
pct_round0(part, whole) ==
    IF whole = 0 THEN NaN ELSE Ratio(10 * RoundHalfEven(100 * part, whole), 10)

\* Series.round(1) of the percentage 100 * part / whole, in tenths of a percent;
\* NaN when whole is 0
pct_round1(part, whole) ==
    IF whole = 0 THEN NaN ELSE Ratio(RoundHalfEven(1000 * part, whole), 10)

\* category_groups with "order_id": "nunique" of the customers in place of "count"
category_groups_nunique(rows) ==
    [cat \in CategoryIds(rows) |->
        LET mine == RowsOfCategory(rows, cat)
        IN  [Order_count |-> Cardinality(CustomerIds(mine)),
             Total_Revenue |-> round2(SumValue(mine), 1),
             Avg_Revenue_per_Order |-> round2(SumValue(mine), Len(mine)),
             Unique_Customers |-> Cardinality(CustomerIds(mine))]]

\* the rows of df.groupby("product_category").agg(...).round(2), by category
category_groups(rows) ==
    [cat \in CategoryIds(rows) |->
        LET mine == RowsOfCategory(rows, cat)
        IN  [Order_count |-> Len(mine),
             Total_Revenue |-> round2(SumValue(mine), 1),
             Avg_Revenue_per_Order |-> round2(SumValue(mine), Len(mine)),
             Unique_Customers |-> Cardinality(CustomerIds(mine))]]

RECURSIVE SumOver(_, _)
SumOver(f, D) ==
    IF D = {} THEN 0
    ELSE LET x == CHOOSE x \in D : TRUE IN f[x] + SumOver(f, D \ {x})

\* category_analysis["Total_Revenue"].sum()
TotalRevenueSum(g) == SumOver([cat \in DOMAIN g |-> g[cat].Total_Revenue], DOMAIN g)

\* category_analysis["Order_count"].sum()
OrderCountSum(g) == SumOver([cat \in DOMAIN g |-> g[cat].Order_count], DOMAIN g)

RevenuePct(g, cat) == pct_round1(g[cat].Total_Revenue, TotalRevenueSum(g))

OrderPct(g, cat) == pct_round1(g[cat].Order_count, OrderCountSum(g))

\* one row of category_analysis with its two percentage columns
category_row(g, cat) ==
    [Category |-> cat,
     Order_count |-> g[cat].Order_count,
     Total_Revenue |-> g[cat].Total_Revenue,
     Avg_Revenue_per_Order |-> g[cat].Avg_Revenue_per_Order,
     Unique_Customers |-> g[cat].Unique_Customers,
     RevenuePct |-> RevenuePct(g, cat),
     OrderPct |-> OrderPct(g, cat)]

\* the orders in which sort_values(ascending=False) may leave the keys D of
\* the column key: every arrangement with the values non-increasing (ties in
\* any order)
Arrangements(D, key) ==
    {s \in [1..Cardinality(D) -> D] :
        /\ \A i, j \in DOMAIN s : i # j => s[i] # s[j]
        /\ \A i, j \in DOMAIN s : i < j => key[s[i]] >= key[s[j]]}

\* category_analysis.sort_values(by="Total_Revenue", ascending=False)
category_orders(g) ==
    Arrangements(DOMAIN g, [cat \in DOMAIN g |-> g[cat].Total_Revenue])

\* Series.cumsum() of Total_Revenue down the sorted table
RECURSIVE cumsum_revenue(_, _)
cumsum_revenue(t, i) ==
    IF i = 0 THEN 0 ELSE t[i].Total_Revenue + cumsum_revenue(t, i - 1)

\* within_80 with the comparison cumsum_revenue_pct < 80
within_80_strict(t, i) ==
    LET total == cumsum_revenue(t, Len(t))
    IN  total # 0 /\ 100 * cumsum_revenue(t, i) < 80 * total

\* cumsum_revenue_pct[i] <= 80 (a comparison with NaN is False)
within_80(t, i) ==
    LET total == cumsum_revenue(t, Len(t))
    IN  total # 0 /\ 100 * cumsum_revenue(t, i) <= 80 * total

num_categories_80(t) == Cardinality({i \in 1..Len(t) : within_80(t, i)})

num_categories_20(t) == Len(t) - num_categories_80(t)

\* is_return with the status pair of the overall metrics
is_return_refunded(o) == o.order_status = "cancelled" \/ o.order_status = "refunded"

\* the order_status lambda of return_analysis
is_return(o) == o.order_status = "cancelled" \/ o.order_status = "returned"

\* is_overall_return with the status pair of return_analysis
is_overall_return_returned(o) ==
    o.order_status = "cancelled" \/ o.order_status = "returned"

\* the status test of the overall return metrics
is_overall_return(o) == o.order_status = "cancelled" \/ o.order_status = "refunded"

return_groups(rows) ==
    [cat \in CategoryIds(rows) |->
        LET mine == RowsOfCategory(rows, cat)
            total == Len(mine)
            returns == Len(SelectSeq(mine, is_return))
        IN  [Category |-> cat,
             Total_Orders |-> total,
             Returns_Refunds |-> returns,
             Return_Rate |-> pct_round1(returns, total),
             Completed_Orders |-> total - returns,
             Completion_Rate |-> pct_round1(total - returns, total)]]

\* return_analysis.sort_values(by="Return_Rate[%]", ascending=False)
return_orders(g) ==
    Arrangements(DOMAIN g, [cat \in DOMAIN g |-> g[cat].Return_Rate.num])

total_returns(rows) == Len(SelectSeq(rows, is_overall_return))

\* total_returns / total_orders * 100, not rounded
overall_return_rate(rows) == Ratio(100 * total_returns(rows), Len(rows))

total_lost_revenue(rows) == SumValue(SelectSeq(rows, is_overall_return))

\* ------------------------------------------------------------------------
\* Revenue Analysis page: discount impact
\* ------------------------------------------------------------------------
\* df[df["discount_applied"] == 0]
no_discount_rows(rows) == SelectSeq(rows, LAMBDA o : o.discount_applied = 0)

\* df[df["discount_applied"] > 0]
with_discount_rows(rows) == SelectSeq(rows, LAMBDA o : o.discount_applied > 0)

\* ((no_discount_avg - with_discount_avg) / no_discount_avg) * 100 as a ratio:
\* NaN when either mean is NaN or both are 0, -inf when only the no-discount
\* mean is 0 (numpy floats do not raise on division by zero)
percentage_diff(a, b) ==
    IF IsNaN(a) \/ IsNaN(b) THEN NaN
    ELSE IF a.num = 0 THEN (IF b.num = 0 THEN NaN ELSE NegInf)
    ELSE Ratio(100 * (a.num * b.den - b.num * a.den), a.num * b.den)

discount_analysis(rows) ==
    [no_discount_revenue |-> SumValue(no_discount_rows(rows)),
     with_discount_revenue |-> SumValue(with_discount_rows(rows)),
     no_discount_avg |-> MeanValue(no_discount_rows(rows)),
     with_discount_avg |-> MeanValue(with_discount_rows(rows)),
     percentage_diff |-> percentage_diff(MeanValue(no_discount_rows(rows)),
                                         MeanValue(with_discount_rows(rows)))]

\* ------------------------------------------------------------------------
\* Seasonal Patterns page
\* ------------------------------------------------------------------------
RowsOfMonth(rows, name) == SelectSeq(rows, LAMBDA o : o.order_month_name = name)

RowsOfQuarter(rows, q) == SelectSeq(rows, LAMBDA o : o.Quarter = q)

RowsOfSeason(rows, se) == SelectSeq(rows, LAMBDA o : o.Season = se)

\* monthly_data after reindex(month_order): one row per calendar month, its
\* cells floats, NaN in the months without orders
monthly_data(rows) ==
    [k \in 1..12 |->
        LET mine == RowsOfMonth(rows, MonthNames[k])
            n == Len(mine)
        IN  [Month |-> MonthNames[k],
             Order_count |-> IF n = 0 THEN NaN ELSE Ratio(n, 1),
             Total_Revenue |->
                 IF n = 0 THEN NaN ELSE Ratio(round2(SumValue(mine), 1), 1),
             Avg_Revenue_per_Order |->
                 IF n = 0 THEN NaN ELSE Ratio(round2(SumValue(mine), n), 1),
             Unique_Customers |->
                 IF n = 0 THEN NaN ELSE Ratio(Cardinality(CustomerIds(mine)), 1),
             Completion_rate |->
                 pct_round1(Len(SelectSeq(mine, LAMBDA o : o.order_status = "completed")),
                            n)]]

\* df.groupby('Quarter')['order_value'].sum(): one entry per quarter that has
\* orders
quarterly_rev(rows) ==
    [q \in {rows[i].Quarter : i \in 1..Len(rows)} |-> SumValue(RowsOfQuarter(rows, q))]

\* Series.values of a series with integer keys: its values in key order
SeriesValues(f) ==
    LET keys == SortAsc([k \in DOMAIN f |-> k], DOMAIN f)
    IN  [i \in 1..Len(keys) |-> f[keys[i]]]

\* Axes.bar(x, height): x and height are broadcast against each other; heights
\* of another length than x, other than 1, raise ValueError (shape mismatch)
bar(x, height) ==
    IF Len(height) = Len(x)
    THEN [error |-> FALSE,
          bars |-> [i \in 1..Len(x) |-> [label |-> x[i], height |-> height[i]]]]
    ELSE IF Len(height) = 1
    THEN [error |-> FALSE,
          bars |-> [i \in 1..Len(x) |-> [label |-> x[i], height |-> height[1]]]]
    ELSE [error |-> TRUE, bars |-> <<>>]

quarter_labels == <<"Q1", "Q2", "Q3", "Q4">>

season_order == <<"Winter", "Spring", "Summer", "Fall">>

\* df.groupby('Season')['order_value'].sum(), reindexed to the seasons present
\* in season_order
seasonal_rev(rows) ==
    LET present == SelectSeq(season_order, LAMBDA se : RowsOfSeason(rows, se) # <<>>)
    IN  [i \in 1..Len(present) |->
            [Season |-> present[i], Revenue |-> SumValue(RowsOfSeason(rows, present[i]))]]

\* the months of monthly_data that have orders
MonthsWithOrders(md) == {k \in DOMAIN md : ~IsNaN(md[k].Total_Revenue)}

\* monthly_data["Total_Revenue"].idxmax(): NaN skipped, the first of equals
peak_month(md) ==
    md[Min({k \in MonthsWithOrders(md) :
              \A j \in MonthsWithOrders(md) :
                  md[j].Total_Revenue.num <= md[k].Total_Revenue.num})].Month

low_month(md) ==
    md[Min({k \in MonthsWithOrders(md) :
              \A j \in MonthsWithOrders(md) :
                  md[k].Total_Revenue.num <= md[j].Total_Revenue.num})].Month

peak_quarter(qr) == Min({q \in DOMAIN qr : \A r \in DOMAIN qr : qr[r] <= qr[q]})

peak_season(sr) ==
    sr[Min({i \in DOMAIN sr : \A j \in DOMAIN sr : sr[j].Revenue <= sr[i].Revenue})].Season

\* monthly_data['Total_Revenue'].mean(): the mean over the months with orders
revenue_mean(md) ==
    Ratio(SumOver([k \in MonthsWithOrders(md) |-> md[k].Total_Revenue.num],
                  MonthsWithOrders(md)),
          Cardinality(MonthsWithOrders(md)))

\* ------------------------------------------------------------------------
\* Recommendations page
\* ------------------------------------------------------------------------
\* df.groupby("product_category").agg({"order_id": "count", "order_status": ...}):
\* the columns keep the names of the columns they aggregate
recommend_groups(rows) ==
    [cat \in CategoryIds(rows) |->
        LET mine == RowsOfCategory(rows, cat)
        IN  [order_id |-> Len(mine),
             order_status |-> Len(SelectSeq(mine, is_return))]]

\* the column names of a frame
ColumnsOf(frame) == UNION {DOMAIN frame[k] : k \in DOMAIN frame}

\* the index of the frames grouped by product_category is in sorted order
CategoryOrder == <<"X", "Y", "Z">>

\* return_analysis['Return_Rate[%]'].idxmax(): the first category, in index
\* order, of those with the highest Returns_Refunds / Total_Orders
high_return_cat(frame) ==
    LET best == {c \in DOMAIN frame : \A d \in DOMAIN frame :
                    frame[d].Returns_Refunds * frame[c].Total_Orders
                        <= frame[c].Returns_Refunds * frame[d].Total_Orders}
    IN  CategoryOrder[Min({i \in DOMAIN CategoryOrder : CategoryOrder[i] \in best})]

\* return_analysis.loc[high_return_cat, 'Return_Rate[%]'], not rounded
high_return_rate(frame) ==
    Ratio(100 * frame[high_return_cat(frame)].Returns_Refunds,
          frame[high_return_cat(frame)].Total_Orders)

\* ------------------------------------------------------------------------
\* State
\* ------------------------------------------------------------------------
VARIABLES
    source,             \* the CSV file: its columns, whether order_date parses, its rows
    df,                 \* the table load_data returned
    loadState,          \* "init", "loaded", or the exception load_data raised
    page,               \* the page selected in the sidebar ("none" before the first)
    status,             \* "none", "rendered", or the exception the page body raised
    overview,           \* Overview: the four metrics
    discount_impact,    \* Revenue Analysis: the discount impact aggregates
    rfm,                \* Customer Segmentation: the rfm table, by customer_id
    category_analysis,  \* Product & Category: the category table, sorted
    pareto,             \* Product & Category: num_categories_80 and num_categories_20
    return_analysis,    \* Product & Category: the return table, sorted
    overall,            \* Product & Category: the overall return metrics
    seasonal,           \* Seasonal Patterns: the monthly table, the charts, the peaks
    recommend,          \* Recommendations: the return table and the category it names
    snapshot            \* history: the results of an earlier run, kept to compare

vars == <<source, df, loadState, page, status, overview, discount_impact, rfm,
          category_analysis, pareto, return_analysis, overall, seasonal, recommend,
          snapshot>>

\* a table or scalar the current run of the script has not computed
Blank == <<>>

\* ------------------------------------------------------------------------
\* Input tables
\* ------------------------------------------------------------------------
OrderRecords(cs, ds, vs, dis, cats, sts) ==
    [customer_id : cs, order_date : ds, order_value : vs, discount_applied : dis,
     product_category : cats, order_status : sts]

\* the non-empty tables of at most MaxOrders rows over the order records O
Tables(O) == UNION {[1..n -> O] : n \in 1..MaxOrders}

\* the state before load_data runs on a CSV file
Start(src) ==
    /\ source = src
    /\ df = [columns |-> {}, rows |-> <<>>]
    /\ loadState = "init"
    /\ page = "none"
    /\ status = "none"
    /\ overview = Blank
    /\ discount_impact = Blank
    /\ rfm = Blank
    /\ category_analysis = Blank
    /\ pareto = Blank
    /\ return_analysis = Blank
    /\ overall = Blank
    /\ seasonal = Blank
    /\ recommend = Blank
    /\ snapshot = Blank

WellFormed(rows) == [columns |-> RequiredColumns, parseable |-> TRUE, rows |-> rows]

\* ------------------------------------------------------------------------
\* load_data
\* ------------------------------------------------------------------------
load_data ==
    /\ loadState = "init"
    /\ IF "order_date" \notin source.columns
       THEN loadState' = "KeyError" /\ df' = df
       ELSE IF ~source.parseable
       THEN loadState' = "ParserError" /\ df' = df
       ELSE IF "discount_applied" \notin source.columns
       THEN loadState' = "KeyError" /\ df' = df
       ELSE /\ loadState' = "loaded"
            /\ df' = [columns |-> source.columns \cup DerivedColumns,
                      rows |-> LoadRows(source.rows)]
    /\ UNCHANGED <<source, page, status, overview, discount_impact, rfm,
                   category_analysis, pareto, return_analysis, overall, seasonal,
                   recommend, snapshot>>

\* ------------------------------------------------------------------------
\* Pages: one run of the script with the page selected
\* ------------------------------------------------------------------------
\* df[col] raises KeyError for some col of cols
KeyError(cols) == ~(cols \subseteq df.columns)

\* a run of page p after the snapshot was taken: the snapshot notes whether a
\* page other than its own has run since
Between(p) ==
    IF snapshot = Blank THEN Blank
    ELSE [snapshot EXCEPT !.between = @ \/ p # snapshot.results.page]

\* Run with the rows of the loaded table left in reverse order
Run_reversing_rows(p, st, ov, di, r, ca, pa, ra, oa) ==
    /\ loadState = "loaded"
    /\ page' = p
    /\ status' = st
    /\ overview' = ov
    /\ discount_impact' = di
    /\ rfm' = r
    /\ category_analysis' = ca
    /\ pareto' = pa
    /\ return_analysis' = ra
    /\ overall' = oa
    /\ seasonal' = Blank
    /\ recommend' = Blank
    /\ snapshot' = Between(p)
    /\ df' = [df EXCEPT !.rows = [i \in 1..Len(df.rows) |->
                                     df.rows[Len(df.rows) + 1 - i]]]
    /\ UNCHANGED <<source, loadState>>

\* the run selects page p, ends with status st and leaves the given outputs
\* of the first four pages
Run(p, st, ov, di, r, ca, pa, ra, oa) ==
    /\ loadState = "loaded"
    /\ page' = p
    /\ status' = st
    /\ overview' = ov
    /\ discount_impact' = di
    /\ rfm' = r
    /\ category_analysis' = ca
    /\ pareto' = pa
    /\ return_analysis' = ra
    /\ overall' = oa
    /\ seasonal' = Blank
    /\ recommend' = Blank
    /\ snapshot' = Between(p)
    /\ UNCHANGED <<source, df, loadState>>

\* the same for the last two pages
RunLate(p, st, se, re) ==
    /\ loadState = "loaded"
    /\ page' = p
    /\ status' = st
    /\ overview' = Blank
    /\ discount_impact' = Blank
    /\ rfm' = Blank
    /\ category_analysis' = Blank
    /\ pareto' = Blank
    /\ return_analysis' = Blank
    /\ overall' = Blank
    /\ seasonal' = se
    /\ recommend' = re
    /\ snapshot' = Between(p)
    /\ UNCHANGED <<source, df, loadState>>

OverviewPage ==
    IF KeyError({"order_value", "customer_id", "order_date"})
    THEN Run("Overview", "KeyError", Blank, Blank, Blank, Blank, Blank, Blank, Blank)
    ELSE Run("Overview", "rendered",
             [total_orders |-> Len(df.rows),
              total_revenue |-> SumValue(df.rows),
              unique_customers |-> Cardinality(CustomerIds(df.rows)),
              date_min |-> Min({df.rows[i].order_date : i \in 1..Len(df.rows)}),
              date_max |-> Max({df.rows[i].order_date : i \in 1..Len(df.rows)})],
             Blank, Blank, Blank, Blank, Blank, Blank)

RevenueAnalysisPage ==
    IF KeyError({"order_value", "discount_applied"})
    THEN Run("Revenue Analysis", "KeyError",
             Blank, Blank, Blank, Blank, Blank, Blank, Blank)
    ELSE Run("Revenue Analysis", "rendered",
             Blank, discount_analysis(df.rows), Blank, Blank, Blank, Blank, Blank)

CustomerSegmentationPage ==
    IF KeyError({"order_date", "customer_id", "order_id", "order_value"})
    THEN Run("Customer Segmentation", "KeyError",
             Blank, Blank, Blank, Blank, Blank, Blank, Blank)
    ELSE LET t == rfm_aggregate(df.rows)
         IN  IF rfm_raises(t)
             THEN Run("Customer Segmentation", "ValueError",
                      Blank, Blank, t, Blank, Blank, Blank, Blank)
             ELSE Run("Customer Segmentation", "rendered",
                      Blank, Blank, ApplySegment(rfm_scored(t)),
                      Blank, Blank, Blank, Blank)

ProductCategoryPage ==
    IF KeyError({"product_category", "order_id", "order_value", "customer_id"})
    THEN Run("Product & Category", "KeyError",
             Blank, Blank, Blank, Blank, Blank, Blank, Blank)
    ELSE LET g == category_groups(df.rows)
         IN  \E co \in category_orders(g) :
               LET ca == [i \in DOMAIN co |-> category_row(g, co[i])]
                   pa == [num_categories_80 |-> num_categories_80(ca),
                          num_categories_20 |-> num_categories_20(ca)]
               IN  IF KeyError({"order_status"})
                   THEN Run("Product & Category", "KeyError",
                            Blank, Blank, Blank, ca, pa, Blank, Blank)
                   ELSE LET rg == return_groups(df.rows)
                        IN  \E ro \in return_orders(rg) :
                              Run("Product & Category", "rendered",
                                  Blank, Blank, Blank, ca, pa,
                                  [i \in DOMAIN ro |-> rg[ro[i]]],
                                  [total_orders |-> Len(df.rows),
                                   total_returns |-> total_returns(df.rows),
                                   overall_return_rate |-> overall_return_rate(df.rows),
                                   total_lost_revenue |-> total_lost_revenue(df.rows)])

\* revenue_std and revenue_cv (lines 728-729) are a square root of the monthly
\* revenues and are left out of the page's results
SeasonalPatternsPage ==
    IF KeyError({"order_id", "order_value", "customer_id", "order_status"})
    THEN RunLate("Seasonal Patterns", "KeyError", Blank, Blank)
    ELSE LET md == monthly_data(df.rows)
             qr == quarterly_rev(df.rows)
             chart == bar(quarter_labels, SeriesValues(qr))
             sr == seasonal_rev(df.rows)
         IN  IF chart.error
             THEN RunLate("Seasonal Patterns", "ValueError",
                          [monthly_data |-> md, quarterly_rev |-> qr], Blank)
             ELSE RunLate("Seasonal Patterns", "rendered",
                          [monthly_data |-> md, quarterly_rev |-> qr,
                           bars |-> chart.bars, seasonal_rev |-> sr,
                           peak_month |-> peak_month(md), low_month |-> low_month(md),
                           peak_quarter |-> peak_quarter(qr),
                           peak_season |-> peak_season(sr),
                           revenue_mean |-> revenue_mean(md)],
                          Blank)

RecommendationsPage ==
    IF KeyError({"product_category", "order_id", "order_status"})
    THEN RunLate("Recommendations", "KeyError", Blank, Blank)
    ELSE LET ra == recommend_groups(df.rows)
         IN  IF ~({"Returns_Refunds", "Total_Orders"} \subseteq ColumnsOf(ra))
             THEN RunLate("Recommendations", "KeyError",
                          Blank, [return_analysis |-> ra])
             ELSE RunLate("Recommendations", "rendered", Blank,
                          [return_analysis |-> ra,
                           high_return_cat |-> high_return_cat(ra),
                           high_return_rate |-> high_return_rate(ra)])

Range(seq) == {seq[i] : i \in DOMAIN seq}

\* what the current run displayed; the two sorted tables as sets of rows (the
\* order sort_values leaves among rows of equal key is not fixed by the model)
Results ==
    [page |-> page, status |-> status, overview |-> overview,
     discount_impact |-> discount_impact, rfm |-> rfm,
     category_analysis |-> Range(category_analysis), pareto |-> pareto,
     return_analysis |-> Range(return_analysis), overall |-> overall,
     seasonal |-> seasonal, recommend |-> recommend]

\* history: keep the results of the current run for later comparison
Remember ==
    /\ loadState = "loaded"
    /\ status # "none"
    /\ snapshot = Blank
    /\ snapshot' = [results |-> Results, between |-> FALSE]
    /\ UNCHANGED <<source, df, loadState, page, status, overview, discount_impact,
                   rfm, category_analysis, pareto, return_analysis, overall,
                   seasonal, recommend>>

\* line 334 alone, on an rfm table that already has its score columns
SegmentationStep ==
    /\ loadState = "loaded"
    /\ page = "Customer Segmentation"
    /\ status = "scored"
    /\ rfm' = ApplySegment(rfm)
    /\ status' = "rendered"
    /\ UNCHANGED <<source, df, loadState, page, overview, discount_impact,
                   category_analysis, pareto, return_analysis, overall, seasonal,
                   recommend, snapshot>>

\* ------------------------------------------------------------------------
\* Specifications
\* ------------------------------------------------------------------------
Scores == 1..5

PlainOrders == OrderRecords({1, 2}, Dates, {100}, {0}, {"X"}, {"completed"})

\* the header of a CSV file: all required columns, or all but one
Headers == {RequiredColumns} \cup {RequiredColumns \ {c} : c \in RequiredColumns}

\* The script on any CSV file: a required column may be absent, order_date
\* may fail to parse
Init ==
    \E cols \in Headers, ok \in BOOLEAN, rows \in Tables(PlainOrders) :
        Start([columns |-> cols, parseable |-> ok, rows |-> rows])

Next ==
    \/ load_data
    \/ OverviewPage
    \/ RevenueAnalysisPage
    \/ CustomerSegmentationPage
    \/ ProductCategoryPage
    \/ SeasonalPatternsPage
    \/ RecommendationsPage

Spec == Init /\ [][Next]_vars

\* The specifications below follow one run of the script on each input table:
\* a second run on the same table computes the same successors again
FirstRun(PageBody) == page = "none" /\ PageBody

\* segment_customer on every score triple
InitSegment ==
    \E r \in Scores, f \in Scores, m \in Scores :
        /\ source = WellFormed(<<CHOOSE o \in PlainOrders :
                                     o.customer_id = 1 /\ o.order_date = 1>>)
        /\ df = [columns |-> RequiredColumns \cup DerivedColumns,
                 rows |-> LoadRows(source.rows)]
        /\ loadState = "loaded"
        /\ page = "Customer Segmentation"
        /\ status = "scored"
        /\ overview = Blank
        /\ discount_impact = Blank
        /\ rfm = [c \in {1} |->
                    [customer_id |-> c, Recency |-> 1, Frequency |-> 1,
                     Monetary |-> 100, R_score |-> r, F_score |-> f, M_score |-> m,
                     RFM_Score |-> <<r, f, m>>]]
        /\ category_analysis = Blank
        /\ pareto = Blank
        /\ return_analysis = Blank
        /\ overall = Blank
        /\ seasonal = Blank
        /\ recommend = Blank
        /\ snapshot = Blank

NextSegment == SegmentationStep

SpecSegment == InitSegment /\ [][NextSegment]_vars

\* Customer Segmentation on well-formed tables
InitRFM ==
    \E rows \in Tables(OrderRecords(Customers, Dates, {100, 400}, {0}, {"X"},
                                    {"completed"})) :
        Start(WellFormed(rows))

NextRFM == load_data \/ FirstRun(CustomerSegmentationPage)

SpecRFM == InitRFM /\ [][NextRFM]_vars

\* Product & Category on tables that vary category and order value
InitCategory ==
    \E rows \in Tables(OrderRecords({1}, {1}, OrderValues, {0}, Categories,
                                    {"completed"})) :
        Start(WellFormed(rows))

NextCategory == load_data \/ FirstRun(ProductCategoryPage)

SpecCategory == InitCategory /\ [][NextCategory]_vars

\* Product & Category on tables that vary category, status and order value
InitReturns ==
    \E rows \in Tables(OrderRecords({1}, {1}, {100, 400}, {0}, {"X", "Y"},
                                    Statuses)) :
        Start(WellFormed(rows))

NextReturns == load_data \/ FirstRun(ProductCategoryPage)

SpecReturns == InitReturns /\ [][NextReturns]_vars

\* Revenue Analysis on tables that vary the discount (missing cells included)
InitDiscount ==
    \E rows \in Tables(OrderRecords({1}, {1}, OrderValues, Discounts \cup {Missing},
                                    {"X"}, {"completed"})) :
        Start(WellFormed(rows))

NextDiscount == load_data \/ FirstRun(RevenueAnalysisPage)

SpecDiscount == InitDiscount /\ [][NextDiscount]_vars

\* the first day of each quarter of 2024
QuarterDates == {1, 92, 183, 275}

\* Seasonal Patterns on tables of up to MaxOrders + 1 orders spread over the
\* quarters
InitSeasonal ==
    \E n \in 1..(MaxOrders + 1) :
        \E rows \in [1..n -> OrderRecords({1}, QuarterDates, {100, 400}, {0}, {"X"},
                                          {"completed"})] :
            Start(WellFormed(rows))

NextSeasonal == load_data \/ FirstRun(SeasonalPatternsPage)

SpecSeasonal == InitSeasonal /\ [][NextSeasonal]_vars

\* Recommendations on the tables of InitReturns
NextRecommend == load_data \/ FirstRun(RecommendationsPage)

SpecRecommend == InitReturns /\ [][NextRecommend]_vars

\* any sequence of page selections on a loaded table, with one run remembered
InitPages ==
    \E rows \in Tables(OrderRecords({1, 2}, {1, 92}, {100, 400}, {0}, {"X"},
                                    {"completed"})) :
        Start(WellFormed(rows))

NextPages ==
    \/ load_data
    \/ OverviewPage
    \/ RevenueAnalysisPage
    \/ CustomerSegmentationPage
    \/ ProductCategoryPage
    \/ SeasonalPatternsPage
    \/ RecommendationsPage
    \/ Remember

SpecPages == InitPages /\ [][NextPages]_vars

RECURSIVE Repeat(_, _)
Repeat(o, k) == IF k = 0 THEN <<>> ELSE <<o>> \o Repeat(o, k - 1)

\* the CSV rows of customers 1..n: customer c placed F[c] orders of V[c] cents
\* each, R[c] days before the day after day MaxProfiles
RECURSIVE ProfileOrders(_, _, _, _)
ProfileOrders(n, R, F, V) ==
    IF n = 0 THEN <<>>
    ELSE ProfileOrders(n - 1, R, F, V)
         \o Repeat([customer_id |-> n, order_date |-> MaxProfiles + 1 - R[n],
                    order_value |-> V[n], discount_applied |-> 0,
                    product_category |-> "X", order_status |-> "completed"], F[n])

\* Customer Segmentation on tables of up to MaxProfiles customers: either the
\* recencies vary (one order each), or the order counts and order values vary
\* (recencies all different)
InitScoring ==
    \E n \in 1..MaxProfiles :
        \/ \E R \in [1..n -> 1..MaxProfiles] :
              /\ \E c \in 1..n : R[c] = 1
              /\ Start(WellFormed(ProfileOrders(n, R, [c \in 1..n |-> 1],
                                                [c \in 1..n |-> 100])))
        \/ \E F \in [1..n -> OrderCounts],
              V \in {[c \in 1..n |-> 100], [c \in 1..n |-> 100 * (n + 1 - c)]} :
              Start(WellFormed(ProfileOrders(n, [c \in 1..n |-> c], F, V)))

NextScoring == load_data \/ FirstRun(CustomerSegmentationPage)

SpecScoring == InitScoring /\ [][NextScoring]_vars

\* ------------------------------------------------------------------------
\* Claims
\* ------------------------------------------------------------------------
Rendered(p) == page = p /\ status = "rendered"

SegmentLabels ==
    {"Champions", "Loyal Customers", "Potential Loyalists", "At Risk",
     "Need Attention", "Promising", "Lost", "Other"}

\* the rule table of the specification, in its order
RuleLabels ==
    <<"Champions", "Loyal Customers", "Potential Loyalists", "At Risk",
      "Need Attention", "Promising", "Lost">>

RuleMatches(k, r, f, m) ==
    CASE k = 1 -> r >= 4 /\ f >= 4 /\ m >= 4
      [] k = 2 -> r >= 3 /\ f >= 4 /\ m >= 4
      [] k = 3 -> r >= 4 /\ f >= 3 /\ m >= 4
      [] k = 4 -> f >= 3 /\ m >= 3 /\ r <= 2
      [] k = 5 -> r >= 4 /\ (f <= 2 \/ m <= 2)
      [] k = 6 -> r >= 3 /\ (f >= 3 \/ m >= 3)
      [] k = 7 -> r <= 2 /\ f <= 2

MatchingRules(r, f, m) == {k \in DOMAIN RuleLabels : RuleMatches(k, r, f, m)}

FirstMatchLabel(r, f, m) ==
    IF MatchingRules(r, f, m) = {} THEN "Other"
    ELSE RuleLabels[Min(MatchingRules(r, f, m))]

\* C1: for every score triple in 1..5, the segment of the row is the label of
\* the first rule of the ordered rule list that matches, and "Other" when no
\* rule matches.
C1_FirstMatchWins ==
    Rendered("Customer Segmentation") =>
        \A c \in DOMAIN rfm :
            rfm[c].Segment = FirstMatchLabel(rfm[c].R_score, rfm[c].F_score, rfm[c].M_score)

\* a row that two rules match has been given a segment
C1_Witness ==
    /\ Rendered("Customer Segmentation")
    /\ \E c \in DOMAIN rfm :
          /\ Cardinality(MatchingRules(rfm[c].R_score, rfm[c].F_score, rfm[c].M_score)) >= 2
          /\ rfm[c].Segment = "Need Attention"

ScoreColumns == {"R_score", "F_score", "M_score", "Segment"}

\* C2: for every non-empty order table, once the Customer Segmentation page
\* has run its RFM computation every customer has a row whose r_score, f_score
\* and m_score are integers in 1..5 and whose segment is one of the 8 labels.
C2_ScoresAndSegmentInRange ==
    page = "Customer Segmentation" =>
        \A c \in CustomerIds(df.rows) :
            /\ c \in DOMAIN rfm
            /\ ScoreColumns \subseteq DOMAIN rfm[c]
            /\ rfm[c].R_score \in Scores
            /\ rfm[c].F_score \in Scores
            /\ rfm[c].M_score \in Scores
            /\ rfm[c].Segment \in SegmentLabels

\* the claim's two examples of a metric with too few distinct values
SingleCustomer == Cardinality(CustomerIds(df.rows)) = 1

SameRecency == \A a, b \in DOMAIN rfm : rfm[a].Recency = rfm[b].Recency

\* C3: when a metric has too few distinct values for 5 quintile bins (all
\* customers share one recency, or there is a single customer), the scoring
\* raises no error and every customer gets a score.
C3_DegenerateBinsAreMerged ==
    (page = "Customer Segmentation" /\ (SingleCustomer \/ SameRecency)) =>
        /\ status # "ValueError"
        /\ \A c \in DOMAIN rfm : "R_score" \in DOMAIN rfm[c]

\* the revenue of the first i rows of the sorted category table
PrefixRevenue(i) ==
    SumSeq([j \in 1..i |-> category_analysis[j].Total_Revenue])

SortedByRevenue ==
    \A i, j \in DOMAIN category_analysis :
        i < j => category_analysis[i].Total_Revenue >= category_analysis[j].Total_Revenue

\* C4: with non-negative order values, positive total revenue and the
\* categories sorted by total revenue descending, k = num_categories_80
\* satisfies: the first k categories hold at most 80% of the revenue (k >= 1),
\* the first k + 1 hold more than 80% unless k is the number of categories,
\* and num_categories_20 is the number of remaining categories.
C4_ParetoCutoff ==
    (Rendered("Product & Category") /\ SumValue(df.rows) > 0) =>
        LET k == pareto.num_categories_80
            n == Len(category_analysis)
        IN  /\ SortedByRevenue
            /\ k \in 0..n
            /\ k >= 1 => 100 * PrefixRevenue(k) <= 80 * PrefixRevenue(n)
            /\ k < n => 100 * PrefixRevenue(k + 1) > 80 * PrefixRevenue(n)
            /\ pareto.num_categories_20 = n - k

\* the first category holds exactly 80% of the revenue and is the 80% set
C4_Witness ==
    /\ Rendered("Product & Category")
    /\ SumValue(df.rows) > 0
    /\ pareto.num_categories_80 = 1
    /\ pareto.num_categories_20 >= 1
    /\ 100 * PrefixRevenue(1) = 80 * PrefixRevenue(Len(category_analysis))

AllDiscountsZero == \A i \in 1..Len(df.rows) : df.rows[i].discount_applied = 0

\* C5 as stated: if every order has discount_applied == 0, both
\* with-discount aggregates (total revenue and mean value of the discounted
\* orders) are undefined, and neither is the number zero.
C5_BothAggregatesUndefined ==
    (Rendered("Revenue Analysis") /\ AllDiscountsZero) =>
        /\ discount_impact.with_discount_revenue # 0
        /\ IsNaN(discount_impact.with_discount_avg)

\* C5 as amended: if every order has discount_applied == 0, the mean value of
\* the discounted orders is undefined (NaN) and so is the percentage
\* difference, while the total revenue of the discounted orders is the number
\* zero (the sum of an empty selection).
C5_MeanUndefinedSumZero ==
    (Rendered("Revenue Analysis") /\ AllDiscountsZero) =>
        /\ IsNaN(discount_impact.with_discount_avg)
        /\ IsNaN(discount_impact.percentage_diff)
        /\ discount_impact.with_discount_revenue = 0

\* no order has a discount, one of them through a missing cell, and the
\* orders without discount have revenue
C5_Witness ==
    /\ Rendered("Revenue Analysis")
    /\ AllDiscountsZero
    /\ \E i \in 1..Len(source.rows) : source.rows[i].discount_applied = Missing
    /\ discount_impact.no_discount_revenue > 0

\* C6: whenever a required column is absent from the source or order_date
\* cannot be parsed, the loader fails before any page runs: no page is
\* rendered from such a table.
C6_NoPageWithoutRequiredColumns ==
    (source.columns # RequiredColumns \/ ~source.parseable) => status # "rendered"

\* C7: the Order_count column of the category table sums to the number of
\* orders in the table.
C7_OrderCountsSumToTotal ==
    Rendered("Product & Category") =>
        SumSeq([i \in DOMAIN category_analysis |-> category_analysis[i].Order_count])
            = Len(df.rows)

\* several categories, one of them with several orders
C7_Witness ==
    /\ Rendered("Product & Category")
    /\ Len(category_analysis) >= 2
    /\ \E i \in DOMAIN category_analysis : category_analysis[i].Order_count >= 2

\* the sum of the Revenue[%] column, in tenths of a percent
RevenuePctSum ==
    SumSeq([i \in DOMAIN category_analysis |-> category_analysis[i].RevenuePct.num])

\* C8: with positive total revenue, the Revenue[%] column (each share rounded
\* to one decimal) sums to 100 within 0.05 per category.
C8_RevenueSharesSumTo100 ==
    (Rendered("Product & Category") /\ SumValue(df.rows) > 0) =>
        /\ \A i \in DOMAIN category_analysis : ~IsNaN(category_analysis[i].RevenuePct)
        /\ 2 * Abs(RevenuePctSum - 1000) <= Len(category_analysis)

\* the rounded shares do not sum to exactly 100
C8_Witness ==
    /\ Rendered("Product & Category")
    /\ SumValue(df.rows) > 0
    /\ Len(category_analysis) = 3
    /\ RevenuePctSum # 1000

\* the orders of a category, and those of them cancelled or returned
CategoryOrders(cat) == {i \in 1..Len(df.rows) : df.rows[i].product_category = cat}

CategoryReturns(cat) ==
    {i \in CategoryOrders(cat) : df.rows[i].order_status \in {"cancelled", "returned"}}

ReturnCountsAsClaimed ==
    /\ \A cat \in CategoryIds(df.rows) :
          \E i \in DOMAIN return_analysis : return_analysis[i].Category = cat
    /\ \A i \in DOMAIN return_analysis :
          LET row == return_analysis[i]
          IN  /\ row.Total_Orders = Cardinality(CategoryOrders(row.Category))
              /\ row.Returns_Refunds = Cardinality(CategoryReturns(row.Category))
              /\ row.Completed_Orders + row.Returns_Refunds = row.Total_Orders

\* C9 as stated: per category, Returns_Refunds counts the cancelled or
\* returned orders (not the refunded ones), Return_Rate[%] is exactly that
\* count divided by the category's order count times 100, and
\* Completed_Orders + Returns_Refunds = Total_Orders.
C9_ReturnRateExact ==
    Rendered("Product & Category") =>
        /\ ReturnCountsAsClaimed
        /\ \A i \in DOMAIN return_analysis :
              LET row == return_analysis[i]
              IN  row.Return_Rate.num * row.Total_Orders
                      = 1000 * row.Returns_Refunds

\* C9 as amended: as stated, with Return_Rate[%] being that quotient rounded
\* to one decimal place (within 0.05 of it).
C9_ReturnRateRoundedToOneDecimal ==
    Rendered("Product & Category") =>
        /\ ReturnCountsAsClaimed
        /\ \A i \in DOMAIN return_analysis :
              LET row == return_analysis[i]
              IN  /\ row.Return_Rate.den = 10
                  /\ 2 * Abs(row.Return_Rate.num * row.Total_Orders
                             - 1000 * row.Returns_Refunds) <= row.Total_Orders

\* the example of the claim: category X has two orders, one completed and
\* one returned, and its return rate is 50.0%
C9_Witness ==
    /\ Rendered("Product & Category")
    /\ Cardinality(CategoryOrders("X")) = 2
    /\ \E i \in CategoryOrders("X") : df.rows[i].order_status = "completed"
    /\ \E i \in CategoryOrders("X") : df.rows[i].order_status = "returned"
    /\ \E i \in DOMAIN return_analysis :
          /\ return_analysis[i].Category = "X"
          /\ return_analysis[i].Return_Rate = Ratio(500, 10)

\* the orders cancelled or refunded
OverallReturns ==
    {i \in 1..Len(df.rows) : df.rows[i].order_status \in {"cancelled", "refunded"}}

\* C10: the dataset-wide return count is the number of cancelled or refunded
\* orders (not the returned ones), the overall return rate is that count
\* divided by the number of orders times 100, and lost revenue is the sum of
\* order_value over those same orders.
C10_OverallReturnMetrics ==
    Rendered("Product & Category") =>
        /\ overall.total_returns = Cardinality(OverallReturns)
        /\ ~IsNaN(overall.overall_return_rate)
        /\ overall.overall_return_rate.num * Len(df.rows)
              = 100 * Cardinality(OverallReturns) * overall.overall_return_rate.den
        /\ overall.total_lost_revenue
              = SumOver([i \in OverallReturns |-> df.rows[i].order_value], OverallReturns)

\* the overall count differs from the sum of the per-category counts
C10_Witness ==
    /\ Rendered("Product & Category")
    /\ overall.total_returns
          # SumSeq([i \in DOMAIN return_analysis |-> return_analysis[i].Returns_Refunds])
    /\ overall.total_returns >= 1
    /\ overall.total_lost_revenue > 0

\* the page has built the rfm table (the scoring that follows may have raised)
RFMComputed == page = "Customer Segmentation" /\ status \in {"rendered", "ValueError"}

OrdersOfCustomer(c) == {i \in 1..Len(df.rows) : df.rows[i].customer_id = c}

\* C11: the rfm table has exactly one row for each distinct customer_id of the
\* order table, the Frequency of a row is the number of that customer's orders,
\* every Frequency is at least 1, and the Frequencies sum to the number of
\* orders.
C11_OneRowPerCustomer ==
    RFMComputed =>
        /\ DOMAIN rfm = {df.rows[i].customer_id : i \in 1..Len(df.rows)}
        /\ \A c \in DOMAIN rfm :
              /\ rfm[c].customer_id = c
              /\ rfm[c].Frequency = Cardinality(OrdersOfCustomer(c))
              /\ rfm[c].Frequency >= 1
        /\ SumOver([c \in DOMAIN rfm |-> rfm[c].Frequency], DOMAIN rfm) = Len(df.rows)

\* two customers, one of them with two orders on the same day
C11_Witness ==
    /\ RFMComputed
    /\ Cardinality(DOMAIN rfm) = 2
    /\ \E c \in DOMAIN rfm :
          /\ rfm[c].Frequency = 2
          /\ \A i \in OrdersOfCustomer(c), j \in OrdersOfCustomer(c) :
                df.rows[i].order_date = df.rows[j].order_date

LastOrderDate == Max({df.rows[i].order_date : i \in 1..Len(df.rows)})

LastOrderDateOf(c) == Max({df.rows[i].order_date : i \in OrdersOfCustomer(c)})

\* C12: the reference date is the day after the latest order date, the Recency
\* of a customer is the number of days from that customer's latest order to the
\* reference date, it is never negative, and it is exactly 1 for a customer
\* whose latest order is on the latest order date.
C12_RecencyFromReferenceDate ==
    RFMComputed =>
        \A c \in DOMAIN rfm :
            /\ rfm[c].Recency = (LastOrderDate + 1) - LastOrderDateOf(c)
            /\ rfm[c].Recency >= 0
            /\ LastOrderDateOf(c) = LastOrderDate => rfm[c].Recency = 1

\* one customer ordered on the latest date, another only the day before
C12_Witness ==
    /\ RFMComputed
    /\ \E c \in DOMAIN rfm, d \in DOMAIN rfm :
          /\ LastOrderDateOf(c) = LastOrderDate
          /\ rfm[c].Recency = 1
          /\ Cardinality(OrdersOfCustomer(d)) = 2
          /\ rfm[d].Recency = 2

\* the customer ranked last among those with the highest value of a column
LastOfHighest(col) ==
    Max({c \in DOMAIN rfm : \A d \in DOMAIN rfm : rfm[d][col] <= rfm[c][col]})

\* C13: whenever the scoring completes, the scores are monotone in their
\* metric: a customer with lower Recency never has a lower R_score, a customer
\* with higher Frequency (Monetary) never has a lower F_score (M_score); a
\* customer with the lowest Recency has R_score 5, and the customer ranked last
\* among those with the highest Frequency (Monetary) has F_score (M_score) 5.
C13_ScoresMonotone ==
    Rendered("Customer Segmentation") =>
        /\ \A a \in DOMAIN rfm, b \in DOMAIN rfm :
              /\ rfm[a].Recency < rfm[b].Recency => rfm[a].R_score >= rfm[b].R_score
              /\ rfm[a].Frequency > rfm[b].Frequency => rfm[a].F_score >= rfm[b].F_score
              /\ rfm[a].Monetary > rfm[b].Monetary => rfm[a].M_score >= rfm[b].M_score
        /\ \A a \in DOMAIN rfm :
              (\A b \in DOMAIN rfm : rfm[a].Recency <= rfm[b].Recency)
                  => rfm[a].R_score = 5
        /\ rfm[LastOfHighest("Frequency")].F_score = 5
        /\ rfm[LastOfHighest("Monetary")].M_score = 5

\* five customers, two of them tied on the highest Frequency, and R scores
\* that differ from the F scores
C13_Witness ==
    /\ Rendered("Customer Segmentation")
    /\ Cardinality(DOMAIN rfm) = 5
    /\ \E a \in DOMAIN rfm, b \in DOMAIN rfm :
          /\ a < b
          /\ rfm[a].Frequency = rfm[b].Frequency
          /\ \A c \in DOMAIN rfm : rfm[c].Frequency <= rfm[a].Frequency
          /\ rfm[a].F_score = 4
          /\ rfm[b].F_score = 5
          /\ rfm[a].R_score = 5
          /\ rfm[b].R_score < 5

\* the number of customers with score k in a score column
ScoreCount(col, k) == Cardinality({c \in DOMAIN rfm : rfm[c][col] = k})

\* the five score groups of a column differ in size by at most one
Balanced(col) ==
    \A j \in Scores, k \in Scores : ScoreCount(col, j) - ScoreCount(col, k) <= 1

DistinctRecencies ==
    \A a \in DOMAIN rfm, b \in DOMAIN rfm : a # b => rfm[a].Recency # rfm[b].Recency

\* C14 as stated: for each of the three metrics, on every population of at
\* least 5 customers on which the scoring completes, the numbers of customers
\* with scores 1, 2, 3, 4 and 5 differ pairwise by at most one.
C14_EqualPopulationBins ==
    (Rendered("Customer Segmentation") /\ Cardinality(DOMAIN rfm) >= 5) =>
        Balanced("R_score") /\ Balanced("F_score") /\ Balanced("M_score")

\* C14 amended: the F and M score groups always differ in size by at most
\* one; the R score groups do when no two customers have the same Recency.
C14_EqualPopulationBinsOfRanks ==
    (Rendered("Customer Segmentation") /\ Cardinality(DOMAIN rfm) >= 5) =>
        /\ Balanced("F_score")
        /\ Balanced("M_score")
        /\ DistinctRecencies => Balanced("R_score")

\* five customers with tied order counts, one customer per score
C14_Witness ==
    /\ Rendered("Customer Segmentation")
    /\ Cardinality(DOMAIN rfm) = 5
    /\ DistinctRecencies
    /\ \A c \in DOMAIN rfm : rfm[c].Frequency = 2
    /\ \A k \in Scores : ScoreCount("F_score", k) = 1 /\ ScoreCount("R_score", k) = 1

\* C15: for any sequence of page selections, no page changes the loaded
\* table, and a page rendered again displays the same results as when it was
\* rendered before, whichever pages were rendered in between.
C15_PagesLeaveTableUnchanged ==
    [][/\ loadState = "loaded" => df' = df
       /\ (snapshot' # Blank /\ snapshot'.results.page = page')
              => Results' = snapshot'.results]_vars

\* a page is rendered, another page runs, the first is rendered again
C15_Witness ==
    /\ snapshot # Blank
    /\ snapshot.between
    /\ snapshot.results.page = "Customer Segmentation"
    /\ snapshot.results.status = "rendered"
    /\ Rendered("Customer Segmentation")
    /\ Cardinality(DOMAIN rfm) = 2

\* the rate of a category as the Product & Category page defines it
ReturnRateOf(cat) == pct_round1(Cardinality(CategoryReturns(cat)),
                                Cardinality(CategoryOrders(cat)))

\* C16: on any table with at least one order the Recommendations page
\* completes its return analysis without error and names as high_return_cat a
\* category whose rate of cancelled or returned orders is the highest.
C16_RecommendationsReturnAnalysis ==
    page = "Recommendations" =>
        /\ status = "rendered"
        /\ \A cat \in CategoryIds(df.rows) :
              ReturnRateOf(cat).num <= ReturnRateOf(recommend.high_return_cat).num

\* the total order_value of quarter q (0 for a quarter without orders)
QuarterTotal(q) ==
    SumOver([i \in 1..Len(df.rows) |-> df.rows[i].order_value],
            {i \in 1..Len(df.rows) : df.rows[i].Quarter = q})

\* C17: for every table, also one in which some quarter has no orders, the
\* Seasonal Patterns page renders without error and its quarterly chart pairs
\* the label Qk with the total order_value of quarter k, for k in 1..4.
C17_QuarterlyBarsPaired ==
    page = "Seasonal Patterns" =>
        /\ status = "rendered"
        /\ seasonal.bars = [k \in 1..4 |-> [label |-> quarter_labels[k],
                                             height |-> QuarterTotal(k)]]

\* C18: after loading, no order has a missing discount_applied and every
\* order is in exactly one of the two discount groups (== 0, > 0), so the
\* revenue without discount plus the revenue with discount is the total
\* order_value.
C18_DiscountSplitIsPartition ==
    /\ loadState = "loaded" =>
          \A i \in 1..Len(df.rows) :
              /\ df.rows[i].discount_applied # Missing
              /\ (df.rows[i].discount_applied = 0) # (df.rows[i].discount_applied > 0)
    /\ Rendered("Revenue Analysis") =>
          discount_impact.no_discount_revenue + discount_impact.with_discount_revenue
              = SumSeq([i \in 1..Len(df.rows) |-> df.rows[i].order_value])

\* a table with a missing discount cell and a discounted order
C18_Witness ==
    /\ Rendered("Revenue Analysis")
    /\ \E i \in 1..Len(source.rows), j \in 1..Len(source.rows) :
          /\ source.rows[i].discount_applied = Missing
          /\ source.rows[i].order_value > 0
          /\ source.rows[j].discount_applied > 0
    /\ discount_impact.no_discount_revenue > 0
    /\ discount_impact.with_discount_revenue > 0

\* the row of scores (r, f, m)
ScoreRow(r, f, m) == [R_score |-> r, F_score |-> f, M_score |-> m]

\* C19: over the score triples of {1..5}^3, each of the eight labels is
\* returned for at least one triple, 'Loyal Customers' is returned only for
\* r = 3 and 'Potential Loyalists' only for f = 3.
C19_LabelsAllReachable ==
    /\ \A label \in SegmentLabels :
          \E r \in Scores, f \in Scores, m \in Scores :
              segment_customer(ScoreRow(r, f, m)) = label
    /\ Rendered("Customer Segmentation") =>
          \A c \in DOMAIN rfm :
              /\ rfm[c].Segment = "Loyal Customers" => rfm[c].R_score = 3
              /\ rfm[c].Segment = "Potential Loyalists" => rfm[c].F_score = 3

\* a customer labelled Loyal Customers
C19_Witness ==
    /\ Rendered("Customer Segmentation")
    /\ \E c \in DOMAIN rfm :
          /\ rfm[c].Segment = "Loyal Customers"
          /\ rfm[c].R_score = 3
          /\ rfm[c].F_score = 5

====
